---- MODULE Spec2Model ----
(***************************************************************************)
(* Model of the raccoon session-gating reverse proxy.                      *)
(*                                                                         *)
(*   Spec       : proxy.connection_thread, one connection at a time, with  *)
(*                the Session Store and the clock.                         *)
(*   SpecHeader : net.utility.read_socket_header and the split done by     *)
(*                net.Request.read_header, byte by byte.                   *)
(*   SpecBody   : net.utility.read_socket_body and net.Request.read_body,  *)
(*                byte by byte.                                            *)
(*   SpecConc   : connection_thread in several threads at once.            *)
(*   SpecCodec  : net.Request.make / read_header and net.Response.make /   *)
(*                read_header as functions on bytes.                       *)
(*                                                                         *)
(* Strings and byte strings are sequences of one-character strings.        *)
(* "r" is CR and "n" is LF.                                                *)
(***************************************************************************)
EXTENDS Integers, Sequences, FiniteSets, TLC

\* Python's None where a string or a byte string is expected: a sequence
\* that is no string of the model (characters are one-character strings)
None == <<"None">>
\* Python's None where an integer is expected
NoInt == -1

\* ----------------------------------------------------------------- state
VARIABLES
    h_stream,     \* bytes the peer has still to deliver
    h_buffer_size,\* buffer_size argument
    h_max_size,   \* max_size argument
    h_buffer,     \* buffer
    h_read_in,    \* read_in
    h_status,     \* "reading", "returned", "split" or the exception raised
    h_header,     \* header_region of Request.read_header (bytes)
    h_body,       \* body_region of Request.read_header
    h_result,     \* what read_socket_header returned (None before it returns)
    h_recvd,      \* history: every byte recv returned, in order
    h_last,       \* history: length of the latest chunk recv returned
    h_zero        \* history: a zero-length read happened

hvars == <<h_stream, h_buffer_size, h_max_size, h_buffer, h_read_in, h_status,
           h_header, h_body, h_result, h_recvd, h_last, h_zero>>

VARIABLES
    b_part_body,    \* part_body argument
    b_cl,           \* headers.get("Content-Length")
    b_te,           \* headers.get("Transfer-Encoding")
    b_stream,       \* bytes the peer has still to deliver on socket_from
    b_buffer_size,  \* buffer_size argument
    b_max_size,     \* max_size argument
    b_stream_mode,  \* stream argument
    b_body,         \* body
    b_read_in,      \* read_in
    b_length,       \* length
    b_status,       \* "enter", "loop", "returned", "done" or the exception
    b_result,       \* return value of read_socket_body once returned
    b_sent,         \* bytes written to socket_to
    b_Body,         \* the message's Body field
    b_complete,     \* the message's __body_complete field
    b_recvd,        \* history: every byte recv returned, in order
    b_reads,        \* history: number of recv calls
    b_zero          \* history: a zero-length read happened

bvars == <<b_part_body, b_cl, b_te, b_stream, b_buffer_size, b_max_size,
           b_stream_mode, b_body, b_read_in, b_length, b_status, b_result,
           b_sent, b_Body, b_complete, b_recvd, b_reads, b_zero>>

VARIABLES
    thread,     \* thread[c]: the frame of handler thread c (its locals,
                \* its two sockets and what travelled over them)
    sessions,   \* the KeyStore `sessions`
    now,        \* datetime.now(timezone.utc), in minutes
    known,      \* tokens that reached a client in a Set-Cookie header
    accepted    \* number of connections accepted so far

cvars == <<thread, sessions, now, known, accepted>>

VARIABLES
    m_message,  \* a Request or a Response
    m_bytes,    \* the bytes make wrote for it (None before)
    m_parsed,   \* the message read_header built from m_bytes
    m_status    \* "message", "encoded", "parsed" or the exception

mvars == <<m_message, m_bytes, m_parsed, m_status>>

vars == <<hvars, bvars, cvars, mvars>>

\* ---------------------------------------------------------------- bounds
MaxStream == 6        \* longest byte stream a peer sends for a header
MaxHdrBuf == 3        \* largest buffer_size tried for the header reader
MaxHdrMax == 6        \* largest max_size tried for the header reader

\* ------------------------------------------------------------- sequences
Byte == {"r", "n", "a"}

SeqsUpTo(S, n) == UNION {[1..k -> S] : k \in 0..n}

Take(s, k) == SubSeq(s, 1, k)
Drop(s, k) == SubSeq(s, k + 1, Len(s))

CRLFCRLF == <<"r", "n", "r", "n">>

\* b"\r\n\r\n" in buffer
HasTerminator(buffer) ==
    \E i \in 1..(Len(buffer) - 3) : SubSeq(buffer, i, i + 3) = CRLFCRLF

\* buffer.find(b"\r\n\r\n"): 0-based index of the first occurrence, or -1
Find(buffer) ==
    IF HasTerminator(buffer)
    THEN (CHOOSE i \in 1..(Len(buffer) - 3) :
             /\ SubSeq(buffer, i, i + 3) = CRLFCRLF
             /\ \A j \in 1..(i - 1) : SubSeq(buffer, j, j + 3) # CRLFCRLF) - 1
    ELSE -1

\* Python slice buffer[:e] for any integer e (negative e counts from the end)
SliceTo(buffer, e) ==
    IF e >= 0 THEN Take(buffer, IF e > Len(buffer) THEN Len(buffer) ELSE e)
    ELSE Take(buffer, IF Len(buffer) + e < 0 THEN 0 ELSE Len(buffer) + e)

\* Python slice buffer[s:] for s >= 0
SliceFrom(buffer, s) == Drop(buffer, IF s > Len(buffer) THEN Len(buffer) ELSE s)

\* ------------------------------------------------ read_socket_header loop
\* One iteration of the while loop: recv returned chunk.  result is the
\* returned buffer once the loop breaks, None while it runs or when it raises.
HeaderLoopStep_SizeAfterTerminator(buffer, read_in, chunk, max_size) ==
    LET n == read_in + Len(chunk)
        b == buffer \o chunk
    IN  IF chunk = <<>>
        THEN [status |-> "PrematureStreamEnd", buffer |-> buffer,
              read_in |-> n, result |-> None]
        ELSE IF HasTerminator(b)
        THEN [status |-> "returned", buffer |-> b, read_in |-> n, result |-> b]
        ELSE IF n > max_size
        THEN [status |-> "RequestTooLarge", buffer |-> buffer,
              read_in |-> n, result |-> None]
        ELSE [status |-> "reading", buffer |-> b, read_in |-> n, result |-> None]

HeaderLoopStep_ZeroReadRetries(buffer, read_in, chunk, max_size) ==
    LET n == read_in + Len(chunk)
        b == buffer \o chunk
    IN  IF chunk # <<>> /\ n > max_size
        THEN [status |-> "RequestTooLarge", buffer |-> buffer,
              read_in |-> n, result |-> None]
        ELSE IF HasTerminator(b)
        THEN [status |-> "returned", buffer |-> b, read_in |-> n, result |-> b]
        ELSE [status |-> "reading", buffer |-> b, read_in |-> n, result |-> None]

HeaderLoopStep(buffer, read_in, chunk, max_size) ==
    LET n == read_in + Len(chunk)
        b == buffer \o chunk
    IN  IF chunk = <<>>
        THEN [status |-> "PrematureStreamEnd", buffer |-> buffer,
              read_in |-> n, result |-> None]
        ELSE IF n > max_size
        THEN [status |-> "RequestTooLarge", buffer |-> buffer,
              read_in |-> n, result |-> None]
        ELSE IF HasTerminator(b)
        THEN [status |-> "returned", buffer |-> b, read_in |-> n, result |-> b]
        ELSE [status |-> "reading", buffer |-> b, read_in |-> n, result |-> None]

\* client.recv(buffer_size): 1..buffer_size bytes of what the peer sends, or
\* no byte once the peer has sent everything and closed.
RecvSizes(stream, buffer_size) ==
    IF stream = <<>> THEN {0}
    ELSE 1..(IF Len(stream) < buffer_size THEN Len(stream) ELSE buffer_size)

HRecv ==
    /\ h_status = "reading"
    /\ \E k \in RecvSizes(h_stream, h_buffer_size) :
         LET chunk == Take(h_stream, k)
             r == HeaderLoopStep(h_buffer, h_read_in, chunk, h_max_size)
         IN  /\ h_stream' = Drop(h_stream, k)
             /\ h_recvd' = h_recvd \o chunk
             /\ h_zero' = (h_zero \/ k = 0)
             /\ h_buffer' = r.buffer
             /\ h_read_in' = r.read_in
             /\ h_status' = r.status
             /\ h_result' = r.result
             /\ h_last' = k
    /\ UNCHANGED <<h_buffer_size, h_max_size, h_header, h_body, bvars, cvars, mvars>>

\* Request.read_header, the split of the returned buffer
HeaderRegion(buffer) == SliceTo(buffer, Find(buffer))
BodyRegion(buffer) == SliceFrom(buffer, Find(buffer) + 4)

HSplit ==
    /\ h_status = "returned"
    /\ h_header' = HeaderRegion(h_result)
    /\ h_body' = BodyRegion(h_result)
    /\ h_status' = "split"
    /\ UNCHANGED <<h_stream, h_buffer_size, h_max_size, h_buffer, h_read_in,
                   h_result, h_recvd, h_last, h_zero, bvars, cvars, mvars>>

\* =================================================== read_socket_body
MaxBodyStream == 3    \* longest byte stream a peer sends for a body
MaxPartBody == 2      \* longest part_body already read with the header
MaxBodyBuf == 2       \* largest buffer_size tried for the body reader
MaxBodyMax == 3       \* largest max_size tried for the body reader

BodyByte == {"p", "q"}

\* str.isnumeric / int(): "0".."9" are decimal digits; "s" stands for a
\* character such as U+00B2 that is numeric but not a decimal digit.
Digit == {"0", "1", "2", "3", "4", "5", "6", "7", "8", "9"}
DigitVal(c) == CASE c = "0" -> 0 [] c = "1" -> 1 [] c = "2" -> 2
                 [] c = "3" -> 3 [] c = "4" -> 4 [] c = "5" -> 5
                 [] c = "6" -> 6 [] c = "7" -> 7 [] c = "8" -> 8
                 [] c = "9" -> 9
DigitChar(d) == CASE d = 0 -> "0" [] d = 1 -> "1" [] d = 2 -> "2"
                  [] d = 3 -> "3" [] d = 4 -> "4" [] d = 5 -> "5"
                  [] d = 6 -> "6" [] d = 7 -> "7" [] d = 8 -> "8"
                  [] d = 9 -> "9"
IsNumeric(s) == s # <<>> /\ \A i \in 1..Len(s) : s[i] \in Digit \cup {"s"}
IsDecimal(s) == \A i \in 1..Len(s) : s[i] \in Digit

RECURSIVE ParseInt(_)
ParseInt(s) == IF Len(s) = 0 THEN 0
          ELSE 10 * ParseInt(Take(s, Len(s) - 1)) + DigitVal(s[Len(s)])

\* str.lower() on the letters that occur
LowerChar(c) == CASE c = "C" -> "c" [] c = "H" -> "h" [] c = "U" -> "u"
                  [] c = "N" -> "n" [] c = "K" -> "k" [] c = "E" -> "e"
                  [] c = "D" -> "d" [] OTHER -> c
Lower(s) == [i \in 1..Len(s) |-> LowerChar(s[i])]

chunked == <<"c", "h", "u", "n", "k", "e", "d">>

\* header values tried (None: the header is absent)
ContentLengths == {None, <<>>, <<"0">>, <<"1">>, <<"2">>, <<"3">>, <<"4">>,
                   <<"0", "2">>, <<"1", "0">>, <<"x">>, <<"s">>}
TransferEncodings == {None, chunked,
                      <<"C", "h", "u", "n", "k", "e", "d">>, <<"g", "z">>}

\* Python truthiness of headers.get(name)
Truthy(v) == v # None /\ v # <<>>

\* ------------------------------------------------- strings, dicts, store
\* str(n) for n >= 0
RECURSIVE Str(_)
Str(n) == IF n < 10 THEN <<DigitChar(n)>>
          ELSE Str(n \div 10) \o <<DigitChar(n % 10)>>

Contains(s, c) == \E i \in 1..Len(s) : s[i] = c
IndexOf(s, c) == CHOOSE i \in 1..Len(s) :
                    s[i] = c /\ \A j \in 1..(i - 1) : s[j] # c

\* s.split(sep) for a one-character separator
RECURSIVE Split(_, _)
Split(s, sep) ==
    IF ~Contains(s, sep) THEN <<s>>
    ELSE <<Take(s, IndexOf(s, sep) - 1)>> \o Split(Drop(s, IndexOf(s, sep)), sep)

\* s.split(sep, 1) when sep occurs in s
Split1(s, sep) == <<Take(s, IndexOf(s, sep) - 1), Drop(s, IndexOf(s, sep))>>

\* s.strip()
RECURSIVE Strip(_)
Strip(s) == IF s # <<>> /\ s[1] = " " THEN Strip(Drop(s, 1))
            ELSE IF s # <<>> /\ s[Len(s)] = " " THEN Strip(Take(s, Len(s) - 1))
            ELSE s

\* s.replace(a, b) for one-character a, b
Replace(s, a, b) == [i \in 1..Len(s) |-> IF s[i] = a THEN b ELSE s[i]]

\* a dict is the sequence of its <<key, value>> items in insertion order
DictHas(d, k) == \E i \in 1..Len(d) : d[i][1] = k
DictGet(d, k) == IF DictHas(d, k)
                 THEN d[CHOOSE i \in 1..Len(d) : d[i][1] = k][2]
                 ELSE None
DictSet_AlwaysAppends(d, k, v) == Append(d, <<k, v>>)
DictSet(d, k, v) == IF DictHas(d, k)
                    THEN [i \in 1..Len(d) |-> IF d[i][1] = k THEN <<k, v>> ELSE d[i]]
                    ELSE Append(d, <<k, v>>)

\* parse_cookies
RECURSIVE ParseCookieParts(_, _)
ParseCookieParts(parts, cookies) ==
    IF parts = <<>> THEN cookies
    ELSE LET part == Strip(Head(parts)) IN
         IF ~Contains(part, "=")
         THEN ParseCookieParts(Tail(parts), cookies)
         ELSE ParseCookieParts(Tail(parts),
                  DictSet(cookies, Split1(part, "=")[1], Split1(part, "=")[2]))

parse_cookies(cookie_string) ==
    IF cookie_string = None \/ Len(cookie_string) = 0 THEN <<>>
    ELSE ParseCookieParts(Split(cookie_string, ";"), <<>>)

\* set_cookie
set_cookie(name, value) == name \o <<"=">> \o value

\* tuple_netstring: None, "ValueError" or the <<ip, port>> tuple
tuple_netstring(string) ==
    IF ~Contains(string, ":") THEN [kind |-> "None", ip |-> <<>>, port |-> 0]
    ELSE LET parts == Split(string, ":") IN
         IF Len(parts) # 2 \/ parts[2] = <<>> \/ ~IsDecimal(parts[2])
         THEN [kind |-> "ValueError", ip |-> <<>>, port |-> 0]
         ELSE [kind |-> "tuple", ip |-> parts[1], port |-> ParseInt(parts[2])]

\* KeyStore: a function from the stored keys to their values
KeyStore_new == [k \in {} |-> 0]
KeyStore_set(store, key, value) ==
    [k \in DOMAIN store \cup {key} |-> IF k = key THEN value ELSE store[k]]
KeyStore_get(store, key) == IF key \in DOMAIN store THEN store[key] ELSE NoInt
KeyStore_contains(store, key) == key \in DOMAIN store
\* delete raises KeyError when the key is missing; the caller tests that
KeyStore_delete_Clears(store, key) == [k \in {} |-> 0]
KeyStore_delete(store, key) == [k \in DOMAIN store \ {key} |-> store[k]]

\* while read_in < length
BodyLoopCond(read_in, length) == read_in < length

\* read_socket_body up to the first test of the loop condition
BodyEnter(part_body, cl, te, max_size) ==
    LET read_in == Len(part_body) IN
    IF Truthy(te) /\ Lower(te) = chunked
    THEN [status |-> "NotImplementedError", length |-> NoInt]
    ELSE IF Truthy(cl)
    THEN IF ~IsNumeric(cl)
         THEN [status |-> "InvalidRequestHead", length |-> NoInt]
         ELSE IF ~IsDecimal(cl)
         THEN [status |-> "ValueError", length |-> NoInt]
         ELSE IF ParseInt(cl) > max_size
         THEN [status |-> "RequestTooLarge", length |-> ParseInt(cl)]
         ELSE [status |-> IF BodyLoopCond(read_in, ParseInt(cl)) THEN "loop"
                          ELSE "returned",
               length |-> ParseInt(cl)]
    ELSE [status |-> "returned_none", length |-> NoInt]

\* One iteration of the while loop: recv returned chunk.
BodyLoopStep_ZeroReadBreaks(body, read_in, length, chunk, stream) ==
    LET n == read_in + Len(chunk) IN
    IF chunk = <<>>
    THEN [status |-> "returned", body |-> body, read_in |-> n, sent |-> <<>>]
    ELSE [status |-> IF BodyLoopCond(n, length) THEN "loop" ELSE "returned",
          body |-> IF stream THEN body ELSE body \o chunk,
          read_in |-> n,
          sent |-> IF stream THEN chunk ELSE <<>>]

BodyLoopStep_DropsLastChunk(body, read_in, length, chunk, stream) ==
    LET n == read_in + Len(chunk) IN
    IF chunk = <<>>
    THEN [status |-> "PrematureStreamEnd", body |-> body, read_in |-> n,
          sent |-> <<>>]
    ELSE [status |-> IF BodyLoopCond(n, length) THEN "loop" ELSE "returned",
          body |-> IF stream \/ ~BodyLoopCond(n, length) THEN body
                   ELSE body \o chunk,
          read_in |-> n,
          sent |-> IF stream THEN chunk ELSE <<>>]

BodyLoopStep_StreamAccumulates(body, read_in, length, chunk, stream) ==
    LET n == read_in + Len(chunk) IN
    IF chunk = <<>>
    THEN [status |-> "PrematureStreamEnd", body |-> body, read_in |-> n,
          sent |-> <<>>]
    ELSE [status |-> IF BodyLoopCond(n, length) THEN "loop" ELSE "returned",
          body |-> body \o chunk,
          read_in |-> n,
          sent |-> IF stream THEN chunk ELSE <<>>]

BodyLoopStep(body, read_in, length, chunk, stream) ==
    LET n == read_in + Len(chunk) IN
    IF chunk = <<>>
    THEN [status |-> "PrematureStreamEnd", body |-> body, read_in |-> n,
          sent |-> <<>>]
    ELSE [status |-> IF BodyLoopCond(n, length) THEN "loop" ELSE "returned",
          body |-> IF stream THEN body ELSE body \o chunk,
          read_in |-> n,
          sent |-> IF stream THEN chunk ELSE <<>>]

\* the value read_socket_body returns when the loop has ended
BodyReturn(body, stream) == IF stream THEN None ELSE body

\* lines 198-211 and the first test of line 213
BEnter ==
    /\ b_status = "enter"
    /\ LET r == BodyEnter(b_part_body, b_cl, b_te, b_max_size) IN
         /\ b_body' = b_part_body
         /\ b_read_in' = Len(b_part_body)
         /\ b_length' = r.length
         /\ b_status' = r.status
         /\ b_result' = IF r.status = "returned"
                        THEN BodyReturn(b_part_body, b_stream_mode) ELSE None
    /\ UNCHANGED <<b_part_body, b_cl, b_te, b_stream, b_buffer_size,
                   b_max_size, b_stream_mode, b_sent, b_Body, b_complete,
                   b_recvd, b_reads, b_zero, hvars, cvars, mvars>>

\* lines 214-223 and the next test of line 213
BRecv ==
    /\ b_status = "loop"
    /\ \E k \in RecvSizes(b_stream, b_buffer_size) :
         LET chunk == Take(b_stream, k)
             r == BodyLoopStep(b_body, b_read_in, b_length, chunk,
                               b_stream_mode)
         IN  /\ b_stream' = Drop(b_stream, k)
             /\ b_recvd' = b_recvd \o chunk
             /\ b_reads' = b_reads + 1
             /\ b_zero' = (b_zero \/ k = 0)
             /\ b_body' = r.body
             /\ b_read_in' = r.read_in
             /\ b_sent' = b_sent \o r.sent
             /\ b_status' = r.status
             /\ b_result' = IF r.status = "returned"
                            THEN BodyReturn(r.body, b_stream_mode) ELSE None
    /\ UNCHANGED <<b_part_body, b_cl, b_te, b_buffer_size, b_max_size,
                   b_stream_mode, b_length, b_Body, b_complete, hvars, cvars, mvars>>

\* Request.read_body / Response.read_body after read_socket_body returned:
\* bytes(None) raises TypeError
ReadBodyFinish(result, stream, Body, complete) ==
    IF stream
    THEN [status |-> "done", Body |-> Body, complete |-> complete]
    ELSE IF result = None
    THEN [status |-> "TypeError", Body |-> Body, complete |-> complete]
    ELSE [status |-> "done", Body |-> result, complete |-> TRUE]

BFinish ==
    /\ b_status \in {"returned", "returned_none"}
    /\ LET r == ReadBodyFinish(b_result, b_stream_mode, b_Body, b_complete) IN
         /\ b_status' = r.status
         /\ b_Body' = r.Body
         /\ b_complete' = r.complete
    /\ UNCHANGED <<b_part_body, b_cl, b_te, b_stream, b_buffer_size,
                   b_max_size, b_stream_mode, b_body, b_read_in, b_length,
                   b_result, b_sent, b_recvd, b_reads, b_zero, hvars, cvars, mvars>>

\* ===================================================== connection_thread
\* configuration read from racoon.toml, scaled down
max_header_size_bytes == 5
max_body_size_bytes == 10
BUFFER_SIZE == 4
cookie_expire_time_minutes == 1
MaxConns == 2         \* connections accepted in a run
MaxTime == 2          \* the clock stops here (minutes)
MaxThreads == 2       \* handler threads that can exist at once
MaxReqBody == 2       \* most body bytes a client sends
MaxRespBody == 2      \* most body bytes a backend sends

Threads == 1..MaxThreads

cookie_name == <<"_", "_", "r", "s", "e", "s", "s", "i", "o", "n">>
Default == <<"d", "e", "f", "a", "u", "l", "t">>
\* the routing table of the spec's routing scenario: a default entry and
\* an entry for the host e.c
forward_addresses == << <<Default, <<"h", ":", "8">> >>,
                        <<<<"e", "_", "c">>, <<"k", ":", "9">> >> >>
client_ip == <<"1", ".", "2">>

\* rendered templates (static/challenge.html, static/intercept.html)
ChallengePage == <<"c", "h">>
InterceptPage == <<"b", "a", "d">>

\* str(uuid.uuid4()) of the n-th connection: never repeats
Token(n) == <<"u">> \o Str(n)
\* a token no challenge ever issued
Bogus == <<"u", "0">>

\* ---- what the peers send
Fill(h) == [i \in 1..h |-> "a"]
BodyBytes(n) == Take(<<"p", "q", "p", "q">>, n)
\* a header block of h bytes, the terminator, then body bytes; or a header
\* block that never ends
Wires(fills, maxbody) ==
    {Fill(h) \o CRLFCRLF \o BodyBytes(n) : h \in fills, n \in 0..maxbody}
        \cup {Fill(h) : h \in fills}
\* the client sends a header block that with its terminator is within
\* max_header_size_bytes, then body bytes, or stops before the terminator;
\* or a header block that is itself longer than max_header_size_bytes and
\* with its terminator within max_body_size_bytes; or a larger one
RequestWires ==
    Wires({max_header_size_bytes - 4}, MaxReqBody)
        \cup {Fill(h) \o CRLFCRLF :
                 h \in {max_body_size_bytes - 4, max_body_size_bytes - 2}}
ResponseWires == Wires({max_header_size_bytes - 4, max_header_size_bytes - 2},
                       MaxRespBody)

\* what parsing the header block gives
RequestHeads == {"ok", "bad_start_line", "bad_method", "bad_header_line"}
ResponseHeads == {"ok", "bad_status_line", "bad_status_code", "bad_status_digit",
                  "bad_header_line"}
ParseError(head) ==
    CASE head = "ok" -> ""
      [] head = "bad_start_line" -> "InvalidRequestHead"
      [] head = "bad_status_line" -> "InvalidRequestHead"
      [] head = "bad_status_code" -> "InvalidRequestHead"
      [] head = "bad_status_digit" -> "ValueError"
      [] head = "bad_header_line" -> "InvalidRequestHead"
      [] head = "bad_method" -> "ValueError"

\* Cookie header values a client sends, knowing the given tokens
CookieHeaders(tokens) ==
    {None, <<"a", "=", "1">>}
        \cup {set_cookie(cookie_name, t) : t \in tokens \cup {Bogus}}
        \cup {<<"a", "=", "1", ";", " ">> \o set_cookie(cookie_name, t) :
                 t \in tokens}

\* Host header values a client sends
HostHeaders == {None, <<>>, <<"e", ".", "c">>, <<"u", ".", "o">>}

\* Content-Length / Transfer-Encoding pairs of a message
Framings == {<<None, None>>, <<None, chunked>>, <<<<"x">>, None>>,
             <<Str(max_body_size_bytes + 1), None>>, <<<<"0">>, None>>, <<<<"1">>, None>>,
             <<<<"2">>, None>>}

NoAddr == [kind |-> "None", ip |-> <<>>, port |-> 0]

\* The g_ fields of a frame are history, not program state: every byte
\* the client sends on the connection (g_wire), the Session
\* Store when the connection was accepted (g_store0), whether the Cookie and
\* Host headers have been read (g_cookie, g_host), what the store held for
\* the token when it was looked up (g_lookup, g_expiry), the clock at the
\* expiry test (g_now) and at the token's issue (g_issued_at), the
\* address of the connect call (g_attempt), and whether Response.read_header
\* has started to read the backend (g_response).

IdleFrame ==
    [pc |-> "idle", conn_id |-> 0, exc |-> "",
     client |-> "None", server |-> "None", connected_to |-> NoAddr,
     c_in |-> <<>>, s_in |-> <<>>, c_out |-> <<>>, s_out |-> <<>>,
     buffer |-> <<>>, read_in |-> 0, length |-> NoInt,
     Headers |-> <<>>, Body |-> <<>>, body_complete |-> FALSE,
     client_cookies |-> <<>>, session_token |-> None,
     expire_offset |-> NoInt, token |-> None, host_header |-> None,
     r_status |-> NoInt, r_Headers |-> <<>>, r_Body |-> <<>>,
     r_complete |-> FALSE,
     g_wire |-> <<>>, g_store0 |-> KeyStore_new, g_cookie |-> FALSE, g_lookup |-> "none",
     g_expiry |-> NoInt, g_now |-> NoInt, g_issued_at |-> NoInt,
     g_host |-> FALSE, g_attempt |-> NoAddr, g_response |-> FALSE]

\* an exception leaves the try block for the finally clause
Raise_TreatedAsNoSession(f, name) ==
    [f EXCEPT !.exc = name, !.pc = "make_session_token"]
Raise(f, name) == [f EXCEPT !.exc = name, !.pc = "finally"]

\* one sendall of a whole message, and one of a body chunk
Message(start, headers, body) ==
    [kind |-> "message", start |-> start, headers |-> headers, body |-> body]
Chunk(bytes) ==
    [kind |-> "chunk", start |-> <<>>, headers |-> <<>>, body |-> bytes]

\* send_response: the message it builds and sends
send_response(version, status, message, body, headers) ==
    Message(<<version, status, message>>,
            DictSet(headers, "Content-Length", Str(Len(body))), body)

\* ---- main: accept and start a thread (the listener takes the lowest free
\* thread; Spec runs one connection at a time)
Accept(c, wire) ==
    /\ accepted < MaxConns
    /\ \A d \in Threads : thread[d].pc = "idle"
    /\ c = 1
    /\ thread' = [thread EXCEPT ![c] =
                     [IdleFrame EXCEPT !.pc = "read_header",
                                       !.conn_id = accepted + 1,
                                       !.client = "open",
                                       !.c_in = wire,
                                       !.g_wire = wire,
                                       !.g_store0 = sessions]]
    /\ accepted' = accepted + 1
    /\ UNCHANGED <<sessions, now, known, hvars, bvars, mvars>>

\* the max_size connection_thread passes to Request.read_header (line 58)
RequestHeaderMaxSize == max_body_size_bytes
\* the max_size connection_thread passes to Response.read_header (line 110)
ResponseHeaderMaxSize == max_header_size_bytes

\* one recv of read_socket_header on the socket whose pending bytes are
\* pending; the frame after it
HeaderRecv_FailureAnswers502(f, pending, k, max_size, next) ==
    LET r == HeaderLoopStep(f.buffer, f.read_in, Take(pending, k), max_size) IN
    IF r.status \in {"PrematureStreamEnd", "RequestTooLarge"}
    THEN [f EXCEPT !.read_in = r.read_in, !.exc = r.status, !.pc = "send_502"]
    ELSE [f EXCEPT !.buffer = r.buffer, !.read_in = r.read_in,
                   !.pc = IF r.status = "returned" THEN next ELSE @]
HeaderRecv(f, pending, k, max_size, next) ==
    LET r == HeaderLoopStep(f.buffer, f.read_in, Take(pending, k), max_size) IN
    IF r.status \in {"PrematureStreamEnd", "RequestTooLarge"}
    THEN Raise([f EXCEPT !.read_in = r.read_in], r.status)
    ELSE [f EXCEPT !.buffer = r.buffer, !.read_in = r.read_in,
                   !.pc = IF r.status = "returned" THEN next ELSE @]

\* lines 56-60, read_socket_header on the client socket
RecvRequestHeader(c) ==
    /\ thread[c].pc = "read_header"
    /\ \E k \in RecvSizes(thread[c].c_in, BUFFER_SIZE) :
         thread' = [thread EXCEPT ![c] =
            [HeaderRecv(thread[c], thread[c].c_in, k, RequestHeaderMaxSize,
                        "parse_header")
               EXCEPT !.c_in = Drop(thread[c].c_in, k)]]
    /\ UNCHANGED <<sessions, now, known, accepted, hvars, bvars, mvars>>

\* Request.read_header lines 80-97
ParseRequestHeader(c, head) ==
    /\ thread[c].pc = "parse_header"
    /\ LET f == thread[c] IN
       thread' = [thread EXCEPT ![c] =
          IF ParseError(head) # ""
          THEN Raise([f EXCEPT !.buffer = <<>>, !.read_in = 0], ParseError(head))
          ELSE [f EXCEPT !.Headers = <<>>,
                         !.Body = BodyRegion(f.buffer),
                         !.body_complete = FALSE,
                         !.buffer = <<>>, !.read_in = 0,
                         !.pc = "cookies"]]
    /\ UNCHANGED <<sessions, now, known, accepted, hvars, bvars, mvars>>

\* lines 69-75.  A header of the request enters Headers when the handler
\* first reads it: cookie is the Cookie header the client sent (or None).
CheckCookie(c) ==
    /\ thread[c].pc = "cookies"
    /\ \E cookie \in CookieHeaders(known) :
       LET f == thread[c]
           client_cookies == parse_cookies(cookie)
           g == [f EXCEPT !.Headers = IF cookie = None THEN @
                                      ELSE DictSet(@, "Cookie", cookie),
                          !.client_cookies = client_cookies,
                          !.g_cookie = TRUE]
       IN thread' = [thread EXCEPT ![c] =
             IF ~DictHas(client_cookies, cookie_name)
             THEN [g EXCEPT !.pc = "make_session_token"]
             ELSE [g EXCEPT !.session_token = DictGet(client_cookies, cookie_name),
                            !.pc = "sessions_get"]]
    /\ UNCHANGED <<sessions, now, known, accepted, hvars, bvars, mvars>>

\* `not expire_offset`
Falsy(expire_offset) == expire_offset = NoInt \/ expire_offset = 0

\* lines 76-80
SessionsGet(c) ==
    /\ thread[c].pc = "sessions_get"
    /\ LET f == thread[c]
           expire_offset == KeyStore_get(sessions, f.session_token)
           g == [f EXCEPT !.expire_offset = expire_offset,
                          !.g_lookup = IF f.session_token \in DOMAIN sessions
                                       THEN "present" ELSE "absent",
                          !.g_expiry = IF f.session_token \in DOMAIN sessions
                                       THEN sessions[f.session_token] ELSE NoInt]
       IN thread' = [thread EXCEPT ![c] =
             IF Falsy(expire_offset)
             THEN [g EXCEPT !.pc = "make_session_token"]
             ELSE [g EXCEPT !.pc = "check_expiry"]]
    /\ UNCHANGED <<sessions, now, known, accepted, hvars, bvars, mvars>>

\* float(expire_offset) < datetime.now(timezone.utc).timestamp()
Expired_NotAfter(expire_offset, t) == expire_offset <= t
Expired_Reversed(expire_offset, t) == expire_offset > t
Expired(expire_offset, t) == expire_offset < t

\* line 81
CheckExpiry(c) ==
    /\ thread[c].pc = "check_expiry"
    /\ thread' = [thread EXCEPT ![c] =
          [@ EXCEPT !.g_now = now,
                    !.pc = IF Expired(thread[c].expire_offset, now)
                           THEN "sessions_delete" ELSE "connect"]]
    /\ UNCHANGED <<sessions, now, known, accepted, hvars, bvars, mvars>>

\* line 82
SessionsDelete(c) ==
    /\ thread[c].pc = "sessions_delete"
    /\ IF KeyStore_contains(sessions, thread[c].session_token)
       THEN /\ sessions' = KeyStore_delete(sessions, thread[c].session_token)
            /\ thread' = [thread EXCEPT ![c].pc = "make_session_token"]
       ELSE /\ sessions' = sessions
            /\ thread' = [thread EXCEPT ![c] = Raise(@, "KeyError")]
    /\ UNCHANGED <<now, known, accepted, hvars, bvars, mvars>>

\* the expiry make_session_token stores
NewExpiry_Now(t) == t
NewExpiry(t) == t + cookie_expire_time_minutes

\* make_session_token, called while send_challenge builds its headers
MakeSessionToken(c) ==
    /\ thread[c].pc = "make_session_token"
    /\ LET uuid_token == Token(thread[c].conn_id) IN
         /\ sessions' = KeyStore_set(sessions, uuid_token, NewExpiry(now))
         /\ thread' = [thread EXCEPT ![c] =
                          [@ EXCEPT !.token = uuid_token,
                                    !.g_issued_at = now,
                                    !.pc = "send_challenge"]]
    /\ UNCHANGED <<now, known, accepted, hvars, bvars, mvars>>

\* the response send_challenge sends
ChallengeResponse_NoCookie(token) ==
    send_response("HTTP/1.1", 200, "OK", ChallengePage, <<>>)
ChallengeResponse(token) ==
    send_response("HTTP/1.1", 200, "OK", ChallengePage,
                  <<<<"Set-Cookie", set_cookie(cookie_name, token)>>>>)

\* send_challenge lines 28-41 after make_session_token, then return;
\* ok: client.sendall succeeds
SendChallenge(c, ok) ==
    /\ thread[c].pc = "send_challenge"
    /\ LET f == thread[c] IN
       IF ok
       THEN /\ thread' = [thread EXCEPT ![c] =
                   [f EXCEPT !.c_out = Append(@, ChallengeResponse(f.token)),
                             !.pc = "finally"]]
            /\ known' = known \cup {f.token}
       ELSE /\ thread' = [thread EXCEPT ![c] = Raise(f, "OSError")]
            /\ known' = known
    /\ UNCHANGED <<sessions, now, accepted, hvars, bvars, mvars>>

\* lines 89-96: the address the handler tries to connect to, or the
\* exception raised on the way (Headers.get("Host") is None when the
\* header is absent, and None has no replace)
RouteKey_NoFallback(host_header) == host_header
RouteKey(host_header) ==
    IF host_header # <<>> /\ DictHas(forward_addresses, host_header)
    THEN host_header ELSE Default

Resolve(host) ==
    IF host = None THEN [kind |-> "AttributeError", ip |-> <<>>, port |-> 0]
    ELSE LET address == DictGet(forward_addresses,
                                RouteKey(Replace(host, ".", "_"))) IN
         IF address = None
         THEN [kind |-> "AttributeError", ip |-> <<>>, port |-> 0]
         ELSE IF tuple_netstring(address).kind = "None"
         THEN [kind |-> "TypeError", ip |-> <<>>, port |-> 0]
         ELSE tuple_netstring(address)

\* lines 86-98: host is the Host header the client sent (or None),
\* reachable: the backend accepts the connection
Connect(c, host, reachable) ==
    /\ thread[c].pc = "connect"
    /\ LET f == thread[c]
           to == Resolve(host)
           g == [f EXCEPT !.server = "open",
                          !.Headers = IF host = None THEN @
                                      ELSE DictSet(@, "Host", host),
                          !.host_header = IF host = None THEN None
                                          ELSE Replace(host, ".", "_"),
                          !.g_host = TRUE,
                          !.g_attempt = IF to.kind = "tuple" THEN to ELSE NoAddr]
       IN thread' = [thread EXCEPT ![c] =
             IF to.kind = "tuple" /\ reachable
             THEN [g EXCEPT !.connected_to = to, !.pc = "forward"]
             ELSE [g EXCEPT !.pc = "send_502"]]
    /\ UNCHANGED <<sessions, now, known, accepted, hvars, bvars, mvars>>

BadGatewayResponse_NoLength ==
    Message(<<"HTTP/1.1", 502, "Bad Gateway">>, <<>>, InterceptPage)
BadGatewayResponse ==
    send_response("HTTP/1.1", 502, "Bad Gateway", InterceptPage, <<>>)

\* lines 97-105
Send502(c, ok) ==
    /\ thread[c].pc = "send_502"
    /\ thread' = [thread EXCEPT ![c] =
          IF ok
          THEN [@ EXCEPT !.c_out = Append(@, BadGatewayResponse),
                         !.pc = "finally"]
          ELSE Raise(@, "OSError")]
    /\ UNCHANGED <<sessions, now, known, accepted, hvars, bvars, mvars>>

\* the headers of a message once its framing headers are known
WithFraming(headers, framing) ==
    LET h1 == IF framing[2] = None THEN headers
              ELSE DictSet(headers, "Transfer-Encoding", framing[2])
    IN  IF framing[1] = None THEN h1
        ELSE DictSet(h1, "Content-Length", framing[1])

RequestLine == <<"GET", "/", "HTTP/1.1">>

\* what make does after its sendall: read_body(stream=True) up to the loop
AfterSend(f, body, headers, complete, loop, done) ==
    LET e == BodyEnter(body, DictGet(headers, "Content-Length"),
                       DictGet(headers, "Transfer-Encoding"),
                       max_body_size_bytes)
    IN  IF complete THEN [f EXCEPT !.pc = done]
        ELSE IF e.status = "loop"
        THEN [f EXCEPT !.read_in = Len(body), !.length = e.length,
                       !.pc = loop]
        ELSE IF e.status \in {"returned", "returned_none"}
        THEN [f EXCEPT !.pc = done]
        ELSE Raise(f, e.status)

\* lines 107-108, Request.make up to the streaming loop.  framing: the
\* Content-Length and Transfer-Encoding the client sent, xff: the
\* X-Forwarded-For it sent (or None), ok: server.sendall succeeds
Forward(c, framing, xff, ok) ==
    /\ thread[c].pc = "forward"
    /\ LET f == thread[c]
           sent == IF xff = None THEN WithFraming(f.Headers, framing)
                   ELSE DictSet(WithFraming(f.Headers, framing),
                                "X-Forwarded-For", xff)
           headers == DictSet(sent, "X-Forwarded-For", client_ip)
           g == [f EXCEPT !.Headers = headers]
       IN thread' = [thread EXCEPT ![c] =
             IF ~ok THEN Raise(g, "OSError")
             ELSE AfterSend([g EXCEPT !.s_out =
                                Append(@, Message(RequestLine, headers, f.Body))],
                            f.Body, headers, f.body_complete,
                            "forward_body", "await_response")]
    /\ UNCHANGED <<sessions, now, known, accepted, hvars, bvars, mvars>>

\* one iteration of the streaming loop of read_socket_body: recv on the
\* socket whose pending bytes are pending, sendall on the other
StreamRecv(f, body, pending, k, ok, done) ==
    LET r == BodyLoopStep(body, f.read_in, f.length, Take(pending, k), TRUE) IN
    IF r.status = "PrematureStreamEnd"
    THEN [status |-> "raise", sent |-> <<>>, frame |-> Raise(f, r.status)]
    ELSE IF ~ok
    THEN [status |-> "raise", sent |-> <<>>,
          frame |-> Raise([f EXCEPT !.read_in = r.read_in], "OSError")]
    ELSE [status |-> "sent", sent |-> r.sent,
          frame |-> [f EXCEPT !.read_in = r.read_in,
                              !.pc = IF r.status = "loop" THEN @ ELSE done]]

\* Request.make, one chunk of the body from the client to the backend
ForwardBody(c, ok) ==
    /\ thread[c].pc = "forward_body"
    /\ \E k \in RecvSizes(thread[c].c_in, BUFFER_SIZE) :
         LET f == thread[c]
             r == StreamRecv(f, f.Body, f.c_in, k, ok, "await_response")
         IN thread' = [thread EXCEPT ![c] =
               [r.frame EXCEPT !.c_in = Drop(f.c_in, k),
                               !.s_out = IF r.status = "sent"
                                         THEN Append(@, Chunk(r.sent)) ELSE @]]
    /\ UNCHANGED <<sessions, now, known, accepted, hvars, bvars, mvars>>

\* the backend sends its response (wire) and closes
BackendResponds(c, wire) ==
    /\ thread[c].pc = "await_response"
    /\ thread' = [thread EXCEPT ![c] =
                     [@ EXCEPT !.s_in = wire, !.buffer = <<>>, !.read_in = 0,
                               !.length = NoInt, !.g_response = TRUE,
                               !.pc = "read_response"]]
    /\ UNCHANGED <<sessions, now, known, accepted, hvars, bvars, mvars>>

\* line 110, read_socket_header on the server socket
RecvResponseHeader(c) ==
    /\ thread[c].pc = "read_response"
    /\ \E k \in RecvSizes(thread[c].s_in, BUFFER_SIZE) :
         thread' = [thread EXCEPT ![c] =
            [HeaderRecv(thread[c], thread[c].s_in, k, ResponseHeaderMaxSize,
                        "parse_response")
               EXCEPT !.s_in = Drop(thread[c].s_in, k)]]
    /\ UNCHANGED <<sessions, now, known, accepted, hvars, bvars, mvars>>

\* Response.read_header lines 191-213
ParseResponseHeader(c, head) ==
    /\ thread[c].pc = "parse_response"
    /\ LET f == thread[c] IN
       thread' = [thread EXCEPT ![c] =
          IF ParseError(head) # ""
          THEN Raise([f EXCEPT !.buffer = <<>>, !.read_in = 0], ParseError(head))
          ELSE [f EXCEPT !.r_status = 200,
                         !.r_Headers = <<>>,
                         !.r_Body = BodyRegion(f.buffer),
                         !.r_complete = FALSE,
                         !.buffer = <<>>, !.read_in = 0,
                         !.pc = "relay"]]
    /\ UNCHANGED <<sessions, now, known, accepted, hvars, bvars, mvars>>

\* line 112, Response.make up to the streaming loop.  framing: the
\* Content-Length and Transfer-Encoding the backend sent, ok:
\* client.sendall succeeds
Relay(c, framing, ok) ==
    /\ thread[c].pc = "relay"
    /\ LET f == thread[c]
           headers == WithFraming(f.r_Headers, framing)
           g == [f EXCEPT !.r_Headers = headers]
       IN thread' = [thread EXCEPT ![c] =
             IF ~ok THEN Raise(g, "OSError")
             ELSE AfterSend([g EXCEPT !.c_out =
                                Append(@, Message(<<"HTTP/1.1", f.r_status, "OK">>,
                                                  headers, f.r_Body))],
                            f.r_Body, headers, f.r_complete,
                            "relay_body", "finally")]
    /\ UNCHANGED <<sessions, now, known, accepted, hvars, bvars, mvars>>

\* Response.make, one chunk of the body from the backend to the client
RelayBody(c, ok) ==
    /\ thread[c].pc = "relay_body"
    /\ \E k \in RecvSizes(thread[c].s_in, BUFFER_SIZE) :
         LET f == thread[c]
             r == StreamRecv(f, f.r_Body, f.s_in, k, ok, "finally")
         IN thread' = [thread EXCEPT ![c] =
               [r.frame EXCEPT !.s_in = Drop(f.s_in, k),
                               !.c_out = IF r.status = "sent"
                                         THEN Append(@, Chunk(r.sent)) ELSE @]]
    /\ UNCHANGED <<sessions, now, known, accepted, hvars, bvars, mvars>>

\* the server socket after `server and server.close()`
CloseServer_Never(server) == server
CloseServer(server) == IF server = "None" THEN "None" ELSE "closed"

\* lines 113-115
Finally(c) ==
    /\ thread[c].pc = "finally"
    /\ thread' = [thread EXCEPT ![c] =
                     [@ EXCEPT !.client = "closed",
                               !.server = CloseServer(@),
                               !.pc = "closed"]]
    /\ UNCHANGED <<sessions, now, known, accepted, hvars, bvars, mvars>>

\* connection_thread has returned: the thread and its frame are gone
Exit(c) ==
    /\ thread[c].pc = "closed"
    /\ thread' = [thread EXCEPT ![c] = IdleFrame]
    /\ UNCHANGED <<sessions, now, known, accepted, hvars, bvars, mvars>>

\* a minute passes
Tick ==
    /\ now < MaxTime
    /\ now' = now + 1
    /\ UNCHANGED <<thread, sessions, known, accepted, hvars, bvars, mvars>>

\* ============================================ encoding and parsing messages
MaxHeaders == 2       \* most headers of an encoded message

CRLF == <<"r", "n">>

\* s.find(sep): 1-based index of the first occurrence of sep in s, 0 if none
FindSub(s, sep) ==
    IF \E i \in 1..(Len(s) - Len(sep) + 1) : SubSeq(s, i, i + Len(sep) - 1) = sep
    THEN CHOOSE i \in 1..(Len(s) - Len(sep) + 1) :
            /\ SubSeq(s, i, i + Len(sep) - 1) = sep
            /\ \A j \in 1..(i - 1) : SubSeq(s, j, j + Len(sep) - 1) # sep
    ELSE 0

\* s.split(sep, maxsplit) for a non-empty sep; maxsplit = -1: no limit
RECURSIVE SplitMax(_, _, _)
SplitMax(s, sep, maxsplit) ==
    IF maxsplit = 0 \/ FindSub(s, sep) = 0 THEN <<s>>
    ELSE <<Take(s, FindSub(s, sep) - 1)>>
            \o SplitMax(Drop(s, FindSub(s, sep) + Len(sep) - 1), sep,
                        IF maxsplit < 0 THEN maxsplit ELSE maxsplit - 1)

\* the values of the Methods enum that are tried
Methods == {<<"G", "E", "T">>, <<"P", "U", "T">>}

NoMessage == [kind |-> "None"]
Request(Method, Path, Version, Headers, Body) ==
    [kind |-> "Request", Method |-> Method, Path |-> Path,
     Version |-> Version, Headers |-> Headers, Body |-> Body]
Response(Version, Status, Message_, Headers, Body) ==
    [kind |-> "Response", Version |-> Version, Status |-> Status,
     Message |-> Message_, Headers |-> Headers, Body |-> Body]

write_status(a, b, c) == a \o <<" ">> \o b \o <<" ">> \o c \o CRLF

RECURSIVE WriteHeaderLines(_)
WriteHeaderLines(headers) ==
    IF headers = <<>> THEN <<>>
    ELSE Head(headers)[1] \o <<":", " ">> \o Head(headers)[2] \o CRLF
            \o WriteHeaderLines(Tail(headers))
write_headers(headers) == WriteHeaderLines(headers) \o CRLF

\* the bytes Request.make and Response.make hand to sendall
Request_make(m) ==
    write_status(m.Method, m.Path, m.Version) \o write_headers(m.Headers)
        \o m.Body
Response_make(m) ==
    write_status(m.Version, Str(m.Status), m.Message) \o write_headers(m.Headers)
        \o m.Body

\* header.split(": ", 1)
HeaderParts_NoMaxsplit(header) == SplitMax(header, <<":", " ">>, -1)
HeaderParts(header) == SplitMax(header, <<":", " ">>, 1)

\* parse_headers: the dict, or the exception
RECURSIVE ParseHeaderLines(_, _)
ParseHeaderLines(lines, http_headers) ==
    IF lines = <<>> THEN [status |-> "ok", headers |-> http_headers]
    ELSE IF Len(HeaderParts(Head(lines))) # 2
    THEN [status |-> "InvalidRequestHead", headers |-> <<>>]
    ELSE ParseHeaderLines(Tail(lines),
             DictSet(http_headers, HeaderParts(Head(lines))[1],
                     HeaderParts(Head(lines))[2]))
parse_headers(lines) == ParseHeaderLines(lines, <<>>)

\* Request.read_header lines 80-97 on the buffer read_socket_header returned
Request_read_header(buffer) ==
    LET header_region == SplitMax(HeaderRegion(buffer), CRLF, -1)
        status_header == SplitMax(header_region[1], <<" ">>, -1)
        http_headers == parse_headers(Tail(header_region))
    IN  IF Len(status_header) # 3
        THEN [status |-> "InvalidRequestHead", message |-> NoMessage]
        ELSE IF status_header[1] \notin Methods
        THEN [status |-> "ValueError", message |-> NoMessage]
        ELSE IF http_headers.status # "ok"
        THEN [status |-> http_headers.status, message |-> NoMessage]
        ELSE [status |-> "ok",
              message |-> Request(status_header[1], status_header[2],
                                  status_header[3], http_headers.headers,
                                  BodyRegion(buffer))]

\* Response.read_header lines 191-213
Response_read_header(buffer) ==
    LET header_region == SplitMax(HeaderRegion(buffer), CRLF, -1)
        status_header == SplitMax(header_region[1], <<" ">>, 2)
        http_headers == parse_headers(Tail(header_region))
    IN  IF Len(status_header) # 3
        THEN [status |-> "InvalidRequestHead", message |-> NoMessage]
        ELSE IF ~IsNumeric(status_header[2])
        THEN [status |-> "InvalidRequestHead", message |-> NoMessage]
        ELSE IF ~IsDecimal(status_header[2])
        THEN [status |-> "ValueError", message |-> NoMessage]
        ELSE IF http_headers.status # "ok"
        THEN [status |-> http_headers.status, message |-> NoMessage]
        ELSE [status |-> "ok",
              message |-> Response(status_header[1], ParseInt(status_header[2]),
                                   status_header[3], http_headers.headers,
                                   BodyRegion(buffer))]

\* ---- the messages tried
Paths == {<<"/">>, <<>>, <<"/", " ", "a">>}
Versions == {<<"H">>}
Statuses == {7, 200}
StatusMessages == {<<"O", "K">>, <<"N", " ", "F">>}
HeaderNames == {<<"A">>, <<"B">>, <<"A", ":", " ", "B">>}
HeaderValues == {<<>>, <<"v">>, <<"v", ":", " ", "w">>,
                 <<"v", "r", "n", "B", ":", " ", "x">>}
Bodies == {<<>>, <<"p">>, <<"r", "n", "r", "n", "p">>}
\* dicts: up to MaxHeaders items with distinct keys
HeaderDicts ==
    {d \in UNION {[1..k -> HeaderNames \X HeaderValues] : k \in 0..MaxHeaders} :
        \A i, j \in 1..Len(d) : i # j => d[i][1] # d[j][1]}
Requests ==
    {Request(m, p, v, h, b) :
        m \in Methods, p \in Paths, v \in Versions, h \in HeaderDicts, b \in Bodies}
Responses ==
    {Response(v, s, t, h, b) :
        v \in Versions, s \in Statuses, t \in StatusMessages, h \in HeaderDicts,
        b \in Bodies}

\* make: the message is written out
Encode ==
    /\ m_status = "message"
    /\ m_bytes' = IF m_message.kind = "Request" THEN Request_make(m_message)
                  ELSE Response_make(m_message)
    /\ m_status' = "encoded"
    /\ UNCHANGED <<m_message, m_parsed, hvars, bvars, cvars>>

\* read_header on the bytes written
Decode ==
    /\ m_status = "encoded"
    /\ LET r == IF m_message.kind = "Request" THEN Request_read_header(m_bytes)
                ELSE Response_read_header(m_bytes)
       IN  /\ m_parsed' = r.message
           /\ m_status' = IF r.status = "ok" THEN "parsed" ELSE r.status
    /\ UNCHANGED <<m_message, m_bytes, hvars, bvars, cvars>>

InitCodec ==
    /\ m_message \in Requests \cup Responses
    /\ m_bytes = None /\ m_parsed = NoMessage /\ m_status = "message"
    /\ thread = [c \in Threads |-> IdleFrame]
    /\ sessions = KeyStore_new
    /\ now = 0
    /\ known = {}
    /\ accepted = 0
    /\ h_stream = <<>> /\ h_buffer_size = 1 /\ h_max_size = 0
    /\ h_buffer = <<>> /\ h_read_in = 0 /\ h_status = "unused"
    /\ h_header = None /\ h_body = None /\ h_result = None
    /\ h_recvd = <<>> /\ h_last = 0 /\ h_zero = FALSE
    /\ b_part_body = <<>> /\ b_cl = None /\ b_te = None /\ b_stream = <<>>
    /\ b_buffer_size = 1 /\ b_max_size = 0 /\ b_stream_mode = FALSE
    /\ b_body = None /\ b_read_in = 0 /\ b_length = NoInt
    /\ b_status = "unused" /\ b_result = None /\ b_sent = <<>>
    /\ b_Body = <<>> /\ b_complete = FALSE /\ b_recvd = <<>>
    /\ b_reads = 0 /\ b_zero = FALSE

NextCodec == Encode \/ Decode

\* ------------------------------------------------------- specifications
Init ==
    /\ thread = [c \in Threads |-> IdleFrame]
    /\ sessions = KeyStore_new
    /\ now = 0
    /\ known = {}
    /\ accepted = 0
    /\ h_stream = <<>> /\ h_buffer_size = 1 /\ h_max_size = 0
    /\ h_buffer = <<>> /\ h_read_in = 0 /\ h_status = "unused"
    /\ h_header = None /\ h_body = None /\ h_result = None
    /\ h_recvd = <<>> /\ h_last = 0 /\ h_zero = FALSE
    /\ b_part_body = <<>> /\ b_cl = None /\ b_te = None /\ b_stream = <<>>
    /\ b_buffer_size = 1 /\ b_max_size = 0 /\ b_stream_mode = FALSE
    /\ b_body = None /\ b_read_in = 0 /\ b_length = NoInt
    /\ b_status = "unused" /\ b_result = None /\ b_sent = <<>>
    /\ b_Body = <<>> /\ b_complete = FALSE /\ b_recvd = <<>>
    /\ b_reads = 0 /\ b_zero = FALSE
    /\ m_message = NoMessage /\ m_bytes = None /\ m_parsed = NoMessage
    /\ m_status = "unused"

InitHeader ==
    /\ h_stream \in SeqsUpTo(Byte, MaxStream)
    /\ h_buffer_size \in 1..MaxHdrBuf
    /\ h_max_size \in 0..MaxHdrMax
    /\ h_buffer = <<>> /\ h_read_in = 0 /\ h_status = "reading"
    /\ h_header = None /\ h_body = None /\ h_result = None
    /\ h_recvd = <<>> /\ h_last = 0 /\ h_zero = FALSE
    /\ thread = [c \in Threads |-> IdleFrame]
    /\ sessions = KeyStore_new
    /\ now = 0
    /\ known = {}
    /\ accepted = 0
    /\ b_part_body = <<>> /\ b_cl = None /\ b_te = None /\ b_stream = <<>>
    /\ b_buffer_size = 1 /\ b_max_size = 0 /\ b_stream_mode = FALSE
    /\ b_body = None /\ b_read_in = 0 /\ b_length = NoInt
    /\ b_status = "unused" /\ b_result = None /\ b_sent = <<>>
    /\ b_Body = <<>> /\ b_complete = FALSE /\ b_recvd = <<>>
    /\ b_reads = 0 /\ b_zero = FALSE
    /\ m_message = NoMessage /\ m_bytes = None /\ m_parsed = NoMessage
    /\ m_status = "unused"

InitBody ==
    /\ b_part_body \in SeqsUpTo(BodyByte, MaxPartBody)
    /\ b_cl \in ContentLengths
    /\ b_te \in TransferEncodings
    /\ b_stream \in SeqsUpTo(BodyByte, MaxBodyStream)
    /\ b_buffer_size \in 1..MaxBodyBuf
    /\ b_max_size \in 0..MaxBodyMax
    /\ b_stream_mode \in BOOLEAN
    /\ b_body = None /\ b_read_in = 0 /\ b_length = NoInt
    /\ b_status = "enter" /\ b_result = None /\ b_sent = <<>>
    /\ b_Body = b_part_body /\ b_complete = FALSE /\ b_recvd = <<>>
    /\ b_reads = 0 /\ b_zero = FALSE
    /\ thread = [c \in Threads |-> IdleFrame]
    /\ sessions = KeyStore_new
    /\ now = 0
    /\ known = {}
    /\ accepted = 0
    /\ h_stream = <<>> /\ h_buffer_size = 1 /\ h_max_size = 0
    /\ h_buffer = <<>> /\ h_read_in = 0 /\ h_status = "unused"
    /\ h_header = None /\ h_body = None /\ h_result = None
    /\ h_recvd = <<>> /\ h_last = 0 /\ h_zero = FALSE
    /\ m_message = NoMessage /\ m_bytes = None /\ m_parsed = NoMessage
    /\ m_status = "unused"

Next ==
    \/ \E c \in Threads : \E wire \in RequestWires : Accept(c, wire)
    \/ \E c \in Threads : RecvRequestHeader(c)
    \/ \E c \in Threads : \E head \in RequestHeads : ParseRequestHeader(c, head)
    \/ \E c \in Threads : CheckCookie(c)
    \/ \E c \in Threads : SessionsGet(c)
    \/ \E c \in Threads : CheckExpiry(c)
    \/ \E c \in Threads : SessionsDelete(c)
    \/ \E c \in Threads : MakeSessionToken(c)
    \/ \E c \in Threads : \E ok \in BOOLEAN : SendChallenge(c, ok)
    \/ \E c \in Threads : \E host \in HostHeaders : \E reachable \in BOOLEAN :
          Connect(c, host, reachable)
    \/ \E c \in Threads : \E ok \in BOOLEAN : Send502(c, ok)
    \/ \E c \in Threads : \E framing \in Framings :
          \E xff \in {None, <<"6", ".", "6">>} : \E ok \in BOOLEAN :
             Forward(c, framing, xff, ok)
    \/ \E c \in Threads : \E ok \in BOOLEAN : ForwardBody(c, ok)
    \/ \E c \in Threads : \E wire \in ResponseWires : BackendResponds(c, wire)
    \/ \E c \in Threads : RecvResponseHeader(c)
    \/ \E c \in Threads : \E head \in ResponseHeads : ParseResponseHeader(c, head)
    \/ \E c \in Threads : \E framing \in Framings : \E ok \in BOOLEAN :
          Relay(c, framing, ok)
    \/ \E c \in Threads : \E ok \in BOOLEAN : RelayBody(c, ok)
    \/ \E c \in Threads : Finally(c)
    \/ \E c \in Threads : Exit(c)
    \/ Tick

\* ---- handler threads running concurrently.  main starts a thread per
\* accepted connection, so a connection is accepted whenever a thread is
\* free; the listener takes the lowest free one.
AcceptConc(c, wire) ==
    /\ accepted < MaxConns
    /\ thread[c].pc = "idle"
    /\ \A d \in Threads : d < c => thread[d].pc # "idle"
    /\ thread' = [thread EXCEPT ![c] =
                     [IdleFrame EXCEPT !.pc = "read_header",
                                       !.conn_id = accepted + 1,
                                       !.client = "open",
                                       !.c_in = wire,
                                       !.g_wire = wire,
                                       !.g_store0 = sessions]]
    /\ accepted' = accepted + 1
    /\ UNCHANGED <<sessions, now, known, hvars, bvars, mvars>>

\* a token issued to a connection that ended before the run starts
Earlier == <<"v", "1">>

\* the proxy has been running: Earlier was issued at minute 0
InitConc ==
    /\ thread = [c \in Threads |-> IdleFrame]
    /\ sessions = KeyStore_set(KeyStore_new, Earlier, NewExpiry(0))
    /\ now = 0
    /\ known = {Earlier}
    /\ accepted = 0
    /\ h_stream = <<>> /\ h_buffer_size = 1 /\ h_max_size = 0
    /\ h_buffer = <<>> /\ h_read_in = 0 /\ h_status = "unused"
    /\ h_header = None /\ h_body = None /\ h_result = None
    /\ h_recvd = <<>> /\ h_last = 0 /\ h_zero = FALSE
    /\ b_part_body = <<>> /\ b_cl = None /\ b_te = None /\ b_stream = <<>>
    /\ b_buffer_size = 1 /\ b_max_size = 0 /\ b_stream_mode = FALSE
    /\ b_body = None /\ b_read_in = 0 /\ b_length = NoInt
    /\ b_status = "unused" /\ b_result = None /\ b_sent = <<>>
    /\ b_Body = <<>> /\ b_complete = FALSE /\ b_recvd = <<>>
    /\ b_reads = 0 /\ b_zero = FALSE
    /\ m_message = NoMessage /\ m_bytes = None /\ m_parsed = NoMessage
    /\ m_status = "unused"

\* peers of the concurrent runs: well-formed messages that declare no body
\* (so the streaming loops are never entered), and sends that succeed
ConcWires == {CRLFCRLF}
ConcFramings == {<<None, None>>}

NextConc ==
    \/ \E c \in Threads : \E wire \in ConcWires : AcceptConc(c, wire)
    \/ \E c \in Threads : RecvRequestHeader(c)
    \/ \E c \in Threads : ParseRequestHeader(c, "ok")
    \/ \E c \in Threads : CheckCookie(c)
    \/ \E c \in Threads : SessionsGet(c)
    \/ \E c \in Threads : CheckExpiry(c)
    \/ \E c \in Threads : SessionsDelete(c)
    \/ \E c \in Threads : MakeSessionToken(c)
    \/ \E c \in Threads : SendChallenge(c, TRUE)
    \/ \E c \in Threads : \E reachable \in BOOLEAN :
          Connect(c, <<"e", ".", "c">>, reachable)
    \/ \E c \in Threads : Send502(c, TRUE)
    \/ \E c \in Threads : \E framing \in ConcFramings :
          Forward(c, framing, None, TRUE)
    \/ \E c \in Threads : \E wire \in ConcWires : BackendResponds(c, wire)
    \/ \E c \in Threads : RecvResponseHeader(c)
    \/ \E c \in Threads : ParseResponseHeader(c, "ok")
    \/ \E c \in Threads : \E framing \in ConcFramings : Relay(c, framing, TRUE)
    \/ \E c \in Threads : Finally(c)
    \/ \E c \in Threads : Exit(c)
    \/ Tick

NextHeader == HRecv \/ HSplit
NextBody == BEnter \/ BRecv \/ BFinish

Spec == Init /\ [][Next]_vars
SpecHeader == InitHeader /\ [][NextHeader]_vars
SpecBody == InitBody /\ [][NextBody]_vars
SpecConc == InitConc /\ [][NextConc]_vars
SpecCodec == InitCodec /\ [][NextCodec]_vars

\* ---- a handler thread keeps running: the statement it is at is executed,
\* and a socket call it is blocked in returns (recv with bytes or, once the
\* peer has closed, with none; connect and sendall by succeeding or failing)
HandlerStep(c) ==
    \/ RecvRequestHeader(c)
    \/ \E head \in RequestHeads : ParseRequestHeader(c, head)
    \/ CheckCookie(c)
    \/ SessionsGet(c)
    \/ CheckExpiry(c)
    \/ SessionsDelete(c)
    \/ MakeSessionToken(c)
    \/ \E ok \in BOOLEAN : SendChallenge(c, ok)
    \/ \E host \in HostHeaders : \E reachable \in BOOLEAN :
          Connect(c, host, reachable)
    \/ \E ok \in BOOLEAN : Send502(c, ok)
    \/ \E framing \in Framings :
          \E xff \in {None, <<"6", ".", "6">>} : \E ok \in BOOLEAN :
             Forward(c, framing, xff, ok)
    \/ \E ok \in BOOLEAN : ForwardBody(c, ok)
    \/ \E wire \in ResponseWires : BackendResponds(c, wire)
    \/ RecvResponseHeader(c)
    \/ \E head \in ResponseHeads : ParseResponseHeader(c, head)
    \/ \E framing \in Framings : \E ok \in BOOLEAN : Relay(c, framing, ok)
    \/ \E ok \in BOOLEAN : RelayBody(c, ok)
    \/ Finally(c)

\* the proxy has been running: Earlier was issued at minute 0, and every
\* connection of the run but the last has come and gone
InitLive ==
    /\ thread = [c \in Threads |-> IdleFrame]
    /\ sessions = KeyStore_set(KeyStore_new, Earlier, NewExpiry(0))
    /\ now = 0
    /\ known = {Earlier}
    /\ accepted = MaxConns - 1
    /\ h_stream = <<>> /\ h_buffer_size = 1 /\ h_max_size = 0
    /\ h_buffer = <<>> /\ h_read_in = 0 /\ h_status = "unused"
    /\ h_header = None /\ h_body = None /\ h_result = None
    /\ h_recvd = <<>> /\ h_last = 0 /\ h_zero = FALSE
    /\ b_part_body = <<>> /\ b_cl = None /\ b_te = None /\ b_stream = <<>>
    /\ b_buffer_size = 1 /\ b_max_size = 0 /\ b_stream_mode = FALSE
    /\ b_body = None /\ b_read_in = 0 /\ b_length = NoInt
    /\ b_status = "unused" /\ b_result = None /\ b_sent = <<>>
    /\ b_Body = <<>> /\ b_complete = FALSE /\ b_recvd = <<>>
    /\ b_reads = 0 /\ b_zero = FALSE
    /\ m_message = NoMessage /\ m_bytes = None /\ m_parsed = NoMessage
    /\ m_status = "unused"

SpecLive ==
    InitLive /\ [][Next]_vars /\ \A c \in Threads : WF_vars(HandlerStep(c))

\* ================================================================ claims
\* ------------------------------------------------ connection_thread
\* the Cookie header of the request and the session cookie in it
CookieOf(f) == DictGet(f.Headers, "Cookie")
HasSessionCookie(f) ==
    /\ CookieOf(f) # None
    /\ \E part \in {Strip(x) : x \in {Split(CookieOf(f), ";")[i] :
                                         i \in 1..Len(Split(CookieOf(f), ";"))}} :
          /\ Len(part) > Len(cookie_name)
          /\ Take(part, Len(cookie_name) + 1) = cookie_name \o <<"=">>
\* the handler has left the try block
Ended(f) == f.pc \in {"finally", "closed"}
\* an upstream socket exists, is connected, or has been written to
Upstream(f) ==
    f.server # "None" \/ f.connected_to.kind # "None" \/ f.s_out # <<>>
\* c_out holds exactly one complete response with this status, whose
\* Content-Length is the length of its body
OneResponse(f, status) ==
    /\ Len(f.c_out) = 1
    /\ f.c_out[1].kind = "message"
    /\ f.c_out[1].start = <<"HTTP/1.1", status,
                            IF status = 200 THEN "OK" ELSE "Bad Gateway">>
    /\ DictGet(f.c_out[1].headers, "Content-Length") = Str(Len(f.c_out[1].body))
\* the challenge for token t has been sent
ChallengeSent(f, t) ==
    /\ OneResponse(f, 200)
    /\ DictGet(f.c_out[1].headers, "Set-Cookie") = cookie_name \o <<"=">> \o t
\* since the connection was accepted the store gained token t and nothing
\* else changed apart from the keys in gone
StoreGained(f, t, gone) ==
    /\ t \notin DOMAIN f.g_store0
    /\ DOMAIN sessions = (DOMAIN f.g_store0 \ gone) \cup {t}
    /\ \A k \in DOMAIN f.g_store0 \ gone : sessions[k] = f.g_store0[k]
    /\ sessions[t] = f.g_issued_at + cookie_expire_time_minutes

\* C1: an upstream socket is created or connected, or a byte sent to a
\* backend, only if the Cookie header holds the session cookie, its token
\* was a key of the Session Store when looked up, and the stored expiry was
\* not before the clock at the expiry test.
C1_SessionGate ==
    \A c \in Threads :
        Upstream(thread[c]) =>
            /\ HasSessionCookie(thread[c])
            /\ thread[c].session_token
                  = DictGet(parse_cookies(CookieOf(thread[c])), cookie_name)
            /\ thread[c].g_lookup = "present"
            /\ thread[c].g_now # NoInt
            /\ thread[c].g_expiry >= thread[c].g_now

\* C1 witness: a request is forwarded whose token expires exactly now
C1_Witness ==
    \E c \in Threads :
        /\ thread[c].connected_to.kind = "tuple"
        /\ thread[c].s_out # <<>>
        /\ thread[c].g_expiry = thread[c].g_now

\* the request was parsed and carries no session cookie, or a token that
\* was not in the store
NoSession(f) ==
    \/ f.g_cookie /\ ~HasSessionCookie(f)
    \/ f.g_lookup = "absent"

\* C2: a request without Cookie header, without the session cookie or with
\* an unknown token adds exactly one token to the store, with expiry = the
\* clock at issue + cookie_expire_time_minutes; unless the client socket
\* fails, one 200 response with Set-Cookie: <cookie_name>=<token> and
\* Content-Length is sent, the token being a key of the store then; nothing
\* is forwarded.
C2_ChallengeIssuance ==
    \A c \in Threads :
        (Ended(thread[c]) /\ NoSession(thread[c])) =>
            /\ thread[c].token # None
            /\ StoreGained(thread[c], thread[c].token, {})
            /\ thread[c].exc \in {"", "OSError"}
            /\ thread[c].exc = "" => ChallengeSent(thread[c], thread[c].token)
            /\ thread[c].exc = "OSError" => thread[c].c_out = <<>>
            /\ ~Upstream(thread[c])

\* C2 witness: a challenge has been sent in answer to an unknown token
C2_Witness ==
    \E c \in Threads :
        /\ thread[c].pc = "finally"
        /\ thread[c].g_lookup = "absent"
        /\ ChallengeSent(thread[c], thread[c].token)
        /\ thread[c].token \in DOMAIN sessions

\* the token was in the store when looked up and the expiry test was made
Tested(f) == f.g_lookup = "present" /\ f.g_now # NoInt

\* C3: with one connection at a time, a token whose stored expiry is before
\* the clock is deleted before the challenge is issued, a new token is
\* stored and (unless the client socket fails) sent in Set-Cookie, and no
\* upstream socket is opened; a token whose expiry equals the clock is kept
\* and the handler goes on to the upstream.
C3_SessionExpiry ==
    \A c \in Threads :
        /\ (Tested(thread[c]) /\ thread[c].g_expiry < thread[c].g_now) =>
              /\ thread[c].pc \in {"sessions_delete", "make_session_token",
                                   "send_challenge", "finally", "closed"}
              /\ thread[c].pc # "sessions_delete" =>
                    thread[c].session_token \notin DOMAIN sessions
              /\ thread[c].pc \in {"sessions_delete", "make_session_token"} =>
                    (thread[c].token = None /\ thread[c].c_out = <<>>)
              /\ Ended(thread[c]) =>
                    /\ thread[c].token \notin {None, thread[c].session_token}
                    /\ StoreGained(thread[c], thread[c].token,
                                   {thread[c].session_token})
                    /\ thread[c].exc \in {"", "OSError"}
                    /\ thread[c].exc = "" =>
                          ChallengeSent(thread[c], thread[c].token)
              /\ ~Upstream(thread[c])
        /\ (Tested(thread[c]) /\ thread[c].g_expiry = thread[c].g_now) =>
              /\ thread[c].session_token \in DOMAIN sessions
              /\ sessions[thread[c].session_token] = thread[c].g_expiry
              /\ thread[c].token = None
              /\ thread[c].pc \notin {"sessions_delete", "make_session_token",
                                      "send_challenge"}
              /\ Ended(thread[c]) => thread[c].server # "None"

\* C3 witness: an expired token was replaced and the challenge sent
C3_Witness ==
    \E c \in Threads :
        /\ thread[c].pc = "closed"
        /\ Tested(thread[c]) /\ thread[c].g_expiry < thread[c].g_now
        /\ thread[c].session_token \in DOMAIN thread[c].g_store0
        /\ ChallengeSent(thread[c], thread[c].token)

\* the routing scenario: Host e.c has its own entry, anything else and no
\* Host header at all go to the default entry
ScenarioAddress(host) ==
    IF host = <<"e", ".", "c">>
    THEN [kind |-> "tuple", ip |-> <<"k">>, port |-> 9]
    ELSE [kind |-> "tuple", ip |-> <<"h">>, port |-> 8]

\* C4 (as stated): once the session check has passed and the handler has
\* chosen its route, the connect call goes to the entry of the normalised
\* Host header if there is one and to the default entry otherwise, also
\* when the Host header is absent.
C4_RouteSelection ==
    \A c \in Threads :
        thread[c].g_host =>
            thread[c].g_attempt = ScenarioAddress(DictGet(thread[c].Headers, "Host"))

\* the connect call was made and failed
ConnectFailed(f) ==
    f.g_attempt.kind = "tuple" /\ f.connected_to.kind = "None"

\* C5: when the connect call fails, the handler ends with the client sent
\* exactly one complete 502 response carrying Content-Length and the error
\* page (or nothing, when the client socket itself fails), nothing sent to
\* a backend, both sockets closed, and no exception from the connect.
C5_GatewayFailure ==
    \A c \in Threads :
        ConnectFailed(thread[c]) =>
            /\ thread[c].pc \in {"send_502", "finally", "closed"}
            /\ thread[c].s_out = <<>>
            /\ Ended(thread[c]) =>
                  /\ thread[c].exc \in {"", "OSError"}
                  /\ thread[c].exc = "" =>
                        /\ OneResponse(thread[c], 502)
                        /\ thread[c].c_out[1].body = InterceptPage
                  /\ thread[c].exc = "OSError" => thread[c].c_out = <<>>
            /\ thread[c].pc = "closed" =>
                  (thread[c].client = "closed" /\ thread[c].server = "closed")

\* C5 witness: the 502 page was sent after a refused connect
C5_Witness ==
    \E c \in Threads :
        /\ thread[c].pc = "closed"
        /\ ConnectFailed(thread[c])
        /\ OneResponse(thread[c], 502)

\* C6: when connection_thread has ended, however it ended, the client
\* socket is closed and the upstream socket is closed if it was created;
\* every exception leads to the finally clause.
C6_Cleanup ==
    \A c \in Threads :
        /\ thread[c].pc = "closed" =>
              (thread[c].client = "closed" /\ thread[c].server \in {"None", "closed"})
        /\ thread[c].exc # "" => Ended(thread[c])
        /\ thread[c].pc = "idle" => thread[c] = IdleFrame

\* C6 witness: the backend closed in the middle of the relayed body
C6_Witness ==
    \E c \in Threads :
        /\ thread[c].pc = "closed"
        /\ thread[c].exc = "PrematureStreamEnd"
        /\ thread[c].c_out # <<>>
        /\ thread[c].server = "closed"

\* ------------------------------------------- connection_thread, framing
\* the body bytes of a sequence of sends, in order
RECURSIVE BodyOf(_)
BodyOf(out) == IF out = <<>> THEN <<>> ELSE Head(out).body \o BodyOf(Tail(out))

\* a decimal number
Decimal(v) == v # None /\ v # <<>> /\ \A i \in 1..Len(v) : v[i] \in Digit
\* the headers declare a chunked body, or a body longer than max
DeclaresChunked(headers) ==
    /\ DictGet(headers, "Transfer-Encoding") \notin {None, <<>>}
    /\ Lower(DictGet(headers, "Transfer-Encoding")) = chunked
DeclaresOver(headers, max) ==
    /\ Decimal(DictGet(headers, "Content-Length"))
    /\ ParseInt(DictGet(headers, "Content-Length")) > max

\* what was written to a socket is one whole message: a header block, no
\* chunked body, and at least the declared Content-Length bytes of body
CompleteMessage(out) ==
    /\ out # <<>>
    /\ Head(out).kind = "message"
    /\ ~DeclaresChunked(Head(out).headers)
    /\ DictHas(Head(out).headers, "Content-Length") =>
          /\ Decimal(DictGet(Head(out).headers, "Content-Length"))
          /\ Len(BodyOf(out)) >= ParseInt(DictGet(Head(out).headers, "Content-Length"))

\* C12 (as stated): when connection_thread has closed its sockets and
\* anything was written to the client, what was written is a complete
\* response: the header block and the declared Content-Length bytes of body.
C12_NoPartialResponse ==
    \A c \in Threads :
        (thread[c].pc = "closed" /\ thread[c].c_out # <<>>) =>
            CompleteMessage(thread[c].c_out)

\* number of bytes of the client's request before the header terminator
HeaderBytes(wire) == IF HasTerminator(wire) THEN Find(wire) ELSE Len(wire)

\* C15 (as stated): once the handler is past reading the header of a
\* request with more than max_header_size_bytes bytes before the header
\* terminator, it has raised RequestTooLarge, with nothing written to the
\* client and no upstream socket, whatever max_body_size_bytes is.
C15_RequestHeaderCeiling ==
    \A c \in Threads :
        (/\ thread[c].pc \notin {"idle", "read_header"}
         /\ HeaderBytes(thread[c].g_wire) > max_header_size_bytes) =>
            /\ thread[c].exc = "RequestTooLarge"
            /\ thread[c].c_out = <<>>
            /\ thread[c].server = "None" /\ thread[c].s_out = <<>>

\* the request came with a session that passed the gate
ValidSession(f) ==
    f.g_lookup = "present" /\ f.g_now # NoInt /\ f.g_expiry >= f.g_now

\* C16 (as stated): a request with a valid session that declares chunked
\* transfer encoding or a Content-Length above max_body_size_bytes ends in
\* an error with no upstream socket opened, nothing sent to a backend and
\* nothing sent to the client.
C16_FramingBeforeUpstream ==
    \A c \in Threads :
        (/\ Ended(thread[c]) /\ ValidSession(thread[c])
         /\ \/ DeclaresChunked(thread[c].Headers)
            \/ DeclaresOver(thread[c].Headers, max_body_size_bytes)) =>
            /\ thread[c].exc # ""
            /\ thread[c].server = "None" /\ thread[c].connected_to.kind = "None"
            /\ thread[c].s_out = <<>>
            /\ thread[c].c_out = <<>>

\* C17: an exception raised before the handler has looked at the Cookie
\* header, that is while reading or parsing the request header, is one of
\* the header failures and ends the connection with nothing written to the
\* client, no upstream socket and the Session Store as it was at accept.
C17_HeaderFailure ==
    \A c \in Threads :
        (thread[c].exc # "" /\ ~thread[c].g_cookie) =>
            /\ thread[c].exc \in {"InvalidRequestHead", "ValueError",
                                  "RequestTooLarge", "PrematureStreamEnd"}
            /\ Ended(thread[c])
            /\ thread[c].c_out = <<>>
            /\ thread[c].server = "None" /\ thread[c].s_out = <<>>
            /\ sessions = thread[c].g_store0
            /\ thread[c].token = None

\* C17 witness: an unknown method, with a session in the store
C17_Witness ==
    \E c \in Threads :
        /\ thread[c].pc = "closed" /\ thread[c].exc = "ValueError"
        /\ ~thread[c].g_cookie
        /\ DOMAIN sessions # {}
        /\ thread[c].client = "closed"

\* a read on the backend socket has been made
BackendRead(f) ==
    f.pc \in {"read_response", "parse_response", "relay", "relay_body"}
        /\ (f.buffer # <<>> \/ f.read_in > 0 \/ f.pc # "read_response")

\* C18: what the backend receives starts with one message: the request
\* line, the headers with exactly one X-Forwarded-For, equal to the client's
\* address, and the body bytes that came with the header; everything after
\* it is body chunks; the body bytes sent are the bytes the client sent
\* after the header, in order, all that were read unless a sendall failed;
\* and the backend is read only once the declared body has been sent.
C18_ForwardedRequest ==
    \A c \in Threads :
        thread[c].s_out # <<>> =>
            /\ thread[c].s_out[1].kind = "message"
            /\ thread[c].s_out[1].start = RequestLine
            /\ thread[c].s_out[1].headers = thread[c].Headers
            /\ Cardinality({i \in 1..Len(thread[c].Headers) :
                   thread[c].Headers[i][1] = "X-Forwarded-For"}) = 1
            /\ \A i \in 1..Len(thread[c].Headers) :
                   thread[c].Headers[i][1] = "X-Forwarded-For" =>
                       thread[c].Headers[i][2] = client_ip
            /\ thread[c].s_out[1].body = thread[c].Body
            /\ \A i \in 2..Len(thread[c].s_out) :
                   thread[c].s_out[i].kind = "chunk"
            /\ BodyOf(thread[c].s_out)
                  = Take(BodyRegion(thread[c].g_wire), Len(BodyOf(thread[c].s_out)))
            /\ thread[c].exc # "OSError" =>
                  BodyOf(thread[c].s_out) \o thread[c].c_in
                     = BodyRegion(thread[c].g_wire)
            /\ (BackendRead(thread[c])
                  /\ DictHas(thread[c].Headers, "Content-Length")
                  /\ DictGet(thread[c].Headers, "Content-Length") # <<>>) =>
                  /\ Decimal(DictGet(thread[c].Headers, "Content-Length"))
                  /\ Len(BodyOf(thread[c].s_out))
                        >= ParseInt(DictGet(thread[c].Headers, "Content-Length"))

\* C18 witness: the backend is being read after the request went out as a
\* message with one body byte and one chunk with the other
C18_Witness ==
    \E c \in Threads :
        /\ thread[c].pc = "parse_response"
        /\ Len(thread[c].s_out) = 2
        /\ thread[c].s_out[1].body = <<"p">>
        /\ thread[c].s_out[2].body = <<"q">>
        /\ DictGet(thread[c].Headers, "Content-Length") = <<"2">>

\* reading or parsing the backend's response header has failed
LateFailure(f) == f.g_response /\ f.exc # "" /\ f.r_status = NoInt
\* the 502 page is among what was written to the client
Sent502(f) ==
    \E i \in 1..Len(f.c_out) :
        f.c_out[i].kind = "message" /\ f.c_out[i].start[2] = 502

\* C21: when reading or parsing the backend's response header fails,
\* whatever the exception, the request has been sent, nothing at all is
\* written to the client and both sockets are closed when the handler ends;
\* and a 502 page is only ever written by a handler that has sent nothing to
\* a backend and is connected to none.
C21_LateFailureSilent ==
    \A c \in Threads :
        /\ LateFailure(thread[c]) =>
              /\ thread[c].s_out # <<>>
              /\ thread[c].c_out = <<>>
              /\ Ended(thread[c])
              /\ thread[c].pc = "closed" =>
                    (thread[c].client = "closed" /\ thread[c].server = "closed")
        /\ Sent502(thread[c]) =>
              /\ thread[c].s_out = <<>>
              /\ thread[c].connected_to.kind = "None"
              /\ ~thread[c].g_response

\* C21 witness: the backend closed before its header ended, and the handler
\* has ended with the request sent and nothing written to the client
C21_Witness ==
    \E c \in Threads :
        /\ thread[c].pc = "closed"
        /\ LateFailure(thread[c])
        /\ thread[c].exc = "PrematureStreamEnd"
        /\ thread[c].s_out # <<>>
        /\ thread[c].c_out = <<>>
        /\ thread[c].server = "closed"

\* ------------------------------------------- connection_thread, termination
\* the handler is in one of its read loops
HeaderLoops == {"read_header", "read_response"}
BodyLoops == {"forward_body", "relay_body"}
\* the byte count of a running loop is within what the loop allows: a header
\* loop runs on only while the count is within max_size, a body loop only
\* while the count is below the declared Content-Length
LoopBounds ==
    \A c \in Threads :
        /\ thread[c].pc = "read_header" =>
              thread[c].read_in <= RequestHeaderMaxSize
        /\ thread[c].pc = "read_response" =>
              thread[c].read_in <= ResponseHeaderMaxSize
        /\ thread[c].pc \in BodyLoops =>
              /\ thread[c].length # NoInt
              /\ thread[c].read_in < thread[c].length
              /\ thread[c].length <= max_body_size_bytes
\* an iteration that stays in its loop has counted at least one more byte
LoopProgress ==
    \A c \in Threads :
        (/\ thread[c].pc \in HeaderLoops \cup BodyLoops
         /\ thread'[c].pc = thread[c].pc
         /\ thread'[c] # thread[c]) =>
            thread'[c].read_in > thread[c].read_in

\* C22: with peers that send finitely many bytes and close, and socket
\* calls that return, every handler that was started reaches the end of
\* connection_thread with its sockets closed; a header loop runs on only
\* with at most max_size bytes counted, a body loop only with fewer than
\* the declared Content-Length, and every iteration that stays in a loop
\* counts at least one more byte.
C22_Termination ==
    /\ []LoopBounds
    /\ [][LoopProgress]_vars
    /\ \A c \in Threads :
          (thread[c].pc # "idle") ~> (thread[c].pc = "closed")

\* C22 witness: the handler has ended after both body loops ran: the
\* request body went out in a message and a chunk, the response body in a
\* message and two chunks
C22_Witness ==
    \E c \in Threads :
        /\ thread[c].pc = "closed"
        /\ thread[c].exc = ""
        /\ Len(thread[c].s_out) = 2
        /\ Len(thread[c].c_out) = 3

\* ------------------------------------------------------ make / read_header
\* text without CR and LF, and without a space
NoLineBreak(s) == ~Contains(s, "r") /\ ~Contains(s, "n")
Token_(s) == NoLineBreak(s) /\ ~Contains(s, " ")

\* the fields of the message are free of the delimiters the encoding uses:
\* no CR or LF in a start-line field, a header name or a header value, no
\* space in a start-line field other than a Response's message, no ": " in
\* a header name
DelimiterFree(m) ==
    /\ \A i \in 1..Len(m.Headers) :
          /\ NoLineBreak(m.Headers[i][1]) /\ NoLineBreak(m.Headers[i][2])
          /\ FindSub(m.Headers[i][1], <<":", " ">>) = 0
    /\ m.kind = "Request" => (Token_(m.Path) /\ Token_(m.Version))
    /\ m.kind = "Response" => (Token_(m.Version) /\ NoLineBreak(m.Message))

\* C13 (as stated): parsing the bytes written for any Request or Response
\* succeeds and gives a message with the same start-line fields, the same
\* headers in the same order and the same body.
C13_RoundTrip ==
    m_status \notin {"unused", "message", "encoded"} =>
        (m_status = "parsed" /\ m_parsed = m_message)

\* C13 amended: the same, for a message whose fields are free of the
\* delimiters of the encoding.
C13_RoundTripDelimiterFree ==
    (m_status \notin {"unused", "message", "encoded"} /\ DelimiterFree(m_message)) =>
        (m_status = "parsed" /\ m_parsed = m_message)

\* C13 witness: a Response with a space in its message, two headers, one
\* with ": " in its value, and a body that starts with CR LF CR LF
C13_Witness ==
    /\ m_status = "parsed" /\ DelimiterFree(m_message)
    /\ m_message.kind = "Response"
    /\ m_message.Message = <<"N", " ", "F">>
    /\ Len(m_message.Headers) = 2
    /\ m_message.Headers[2][2] = <<"v", ":", " ", "w">>
    /\ m_message.Body = <<"r", "n", "r", "n", "p">>
    /\ m_parsed = m_message

\* ------------------------------------------------- the Session Store
\* the handler found its token in the store with an expiry before the clock
SawExpired(f) == Tested(f) /\ f.g_expiry < f.g_now

\* C14 (as stated): among handlers running concurrently, every handler that
\* found its token expired ends without an exception, having issued a
\* challenge for a new token, and the expired entry is absent from the
\* store.
C14_ConcurrentStore ==
    \A c \in Threads :
        (Ended(thread[c]) /\ SawExpired(thread[c])) =>
            /\ thread[c].exc = ""
            /\ thread[c].session_token \notin DOMAIN sessions
            /\ thread[c].token # None
            /\ ChallengeSent(thread[c], thread[c].token)

\* C20: in every step of every interleaving, an entry leaves the store only
\* through the delete of a handler whose request carried that token, which
\* saw that entry's expiry before the clock, the expiry having passed; an
\* entry enters the store only as the new token of a handler issuing a
\* challenge; and an entry that stays keeps its expiry.
C20_LazyOnlyEviction ==
    [][/\ \A k \in DOMAIN sessions \ DOMAIN sessions' :
             \E c \in Threads :
                /\ thread[c].pc = "sessions_delete"
                /\ thread'[c].pc = "make_session_token"
                /\ DictGet(parse_cookies(CookieOf(thread[c])), cookie_name) = k
                /\ SawExpired(thread[c])
                /\ thread[c].g_expiry = sessions[k]
                /\ sessions[k] < now
       /\ \A k \in DOMAIN sessions' \ DOMAIN sessions :
             \E c \in Threads :
                /\ thread[c].pc = "make_session_token"
                /\ thread'[c].pc = "send_challenge"
                /\ thread'[c].token = k
       /\ \A k \in DOMAIN sessions \cap DOMAIN sessions' :
             sessions'[k] = sessions[k]]_vars

\* C20 witness: a handler has deleted the expired entry while another
\* handler that saw the same entry is about to delete it, and the store
\* holds a token issued since
C20_Witness ==
    \E c, d \in Threads :
        /\ c # d
        /\ thread[c].pc = "make_session_token" /\ SawExpired(thread[c])
        /\ thread[d].pc = "sessions_delete"
        /\ thread[d].session_token = thread[c].session_token
        /\ thread[c].session_token \notin DOMAIN sessions

\* -------------------------------------------------- read_socket_header
\* the whole byte stream of the header read: received so far, then the rest
h_all == h_recvd \o h_stream
\* what had been received before the latest recv
h_before == Take(h_recvd, Len(h_recvd) - h_last)

\* C7 (as stated): whenever the bytes before the first CRLFCRLF of the stream
\* are fewer than max_size, the header read raises nothing, and once
\* Request.read_header has split the buffer, header_region is exactly the
\* bytes before the terminator and body_region exactly the bytes received
\* after it.
C7_HeaderUnderMaxSucceeds ==
    (HasTerminator(h_all) /\ Find(h_all) < h_max_size) =>
        /\ h_status \notin {"RequestTooLarge", "PrematureStreamEnd"}
        /\ h_status = "split" =>
             /\ h_header = Take(h_all, Find(h_all))
             /\ h_body = Drop(h_recvd, Find(h_all) + 4)

\* C8: read_socket_header raises RequestTooLarge whenever the bytes received
\* exceed max_size and no terminator had been seen before the latest read,
\* raises PrematureStreamEnd whenever a zero-length read happens before a
\* terminator has been seen, and returns no buffer in either case.
C8_HeaderReadFailures ==
    /\ (~h_zero /\ Len(h_recvd) > h_max_size /\ ~HasTerminator(h_before))
          => (h_status = "RequestTooLarge" /\ h_result = None)
    /\ (h_zero /\ ~HasTerminator(h_before))
          => (h_status = "PrematureStreamEnd" /\ h_result = None)
    /\ h_status \in {"RequestTooLarge", "PrematureStreamEnd"}
          => (h_result = None /\ h_header = None /\ h_body = None)

\* C8 witness: the read that carries the terminator is the one that takes
\* the count over max_size, after an earlier read was accepted.
C8_Witness ==
    /\ h_status = "RequestTooLarge"
    /\ h_buffer # <<>>
    /\ HasTerminator(h_recvd)
    /\ Len(h_recvd) > h_max_size

\* the body read is for a message that declares Content-Length: N with
\* N <= max_size and no chunked transfer encoding
b_N == ParseInt(b_cl)
DeclaredBody ==
    /\ ~(Truthy(b_te) /\ Lower(b_te) = chunked)
    /\ Truthy(b_cl) /\ IsNumeric(b_cl) /\ IsDecimal(b_cl)
    /\ b_N <= b_max_size

\* C9: in non-stream mode, when part_body and the bytes the peer delivers
\* make up the N declared bytes, the read raises nothing and returns exactly
\* N bytes, the concatenation of part_body and the chunks read, which
\* Request.read_body stores as the message body.
C9_NonStreamBodyExact ==
    (/\ b_status # "unused" /\ DeclaredBody /\ ~b_stream_mode
     /\ Len(b_part_body) + Len(b_recvd) + Len(b_stream) = b_N) =>
        /\ b_status \in {"enter", "loop", "returned", "done"}
        /\ b_status \in {"returned", "done"} =>
             /\ b_result = b_part_body \o b_recvd
             /\ Len(b_result) = b_N
        /\ b_status = "done" =>
             /\ b_Body = b_part_body \o b_recvd
             /\ Len(b_Body) = b_N
             /\ b_complete

\* C9 witness: a body of 3 bytes returned from a 1-byte prefix and two reads
C9_Witness ==
    /\ b_status = "done" /\ DeclaredBody /\ ~b_stream_mode
    /\ b_N = 3 /\ Len(b_part_body) = 1 /\ b_reads = 2
    /\ b_Body = b_part_body \o b_recvd

\* C10: a zero-length read while the running total is below the declared
\* length raises PrematureStreamEnd, in stream and in non-stream mode, and
\* no body is returned or stored.
C10_BodyPrematureClose ==
    (b_status # "unused" /\ DeclaredBody /\ b_zero /\ b_read_in < b_N) =>
        /\ b_status = "PrematureStreamEnd"
        /\ b_result = None
        /\ b_Body = b_part_body
        /\ ~b_complete

\* C10 witness: the peer closes in stream mode after a chunk was forwarded
C10_Witness ==
    /\ b_status = "PrematureStreamEnd" /\ DeclaredBody /\ b_zero
    /\ b_stream_mode /\ b_sent # <<>> /\ b_read_in < b_N

\* C11 (as stated): for a message without chunked transfer encoding, a
\* Content-Length that is a decimal number greater than max_size makes
\* read_socket_body raise RequestTooLarge, and a non-empty Content-Length
\* that is not a decimal number makes it raise InvalidRequestHead, in both
\* cases with no read on the source and nothing written to the destination.
C11_DeclaredSizeCeiling ==
    (/\ b_status \notin {"unused", "enter"}
     /\ ~(Truthy(b_te) /\ Lower(b_te) = chunked)
     /\ Truthy(b_cl)) =>
        /\ (\A i \in 1..Len(b_cl) : b_cl[i] \in Digit) =>
              (b_N > b_max_size =>
                  /\ b_status = "RequestTooLarge"
                  /\ b_reads = 0 /\ b_sent = <<>> /\ b_result = None)
        /\ (\E i \in 1..Len(b_cl) : b_cl[i] \notin Digit) =>
              /\ b_status = "InvalidRequestHead"
              /\ b_reads = 0 /\ b_sent = <<>> /\ b_result = None

\* C19: in stream mode every chunk read from the source has been written to
\* the destination before the next read, in order; body never grows beyond
\* part_body; read_socket_body returns None and the message keeps its Body.
C19_StreamingRelay ==
    (b_stream_mode /\ b_status \notin {"unused", "enter"}) =>
        /\ b_sent = b_recvd
        /\ b_body = b_part_body
        /\ b_result = None
        /\ b_Body = b_part_body
        /\ ~b_complete

\* C19 witness: two chunks relayed after a one-byte prefix
C19_Witness ==
    /\ b_stream_mode /\ b_status = "done" /\ DeclaredBody
    /\ Len(b_part_body) = 1 /\ b_reads = 2 /\ Len(b_sent) = 2
    /\ b_sent = b_recvd

====
